---- MODULE Spec2Model ----
(***************************************************************************)
(* Model of the check extraction agent (agents/check_extraction_agent.py)  *)
(* and its command line driver (main.py).                                  *)
(*                                                                         *)
(* Text is a sequence of one-character strings.  The regular expressions   *)
(* of the source are written as sequences of items and matched by a        *)
(* leftmost, greedy, backtracking matcher, as Python's re module does.     *)
(***************************************************************************)
EXTENDS Integers, Sequences, FiniteSets, TLC

VARIABLES
    text,    \* pure-function specifications: the input string
    res,     \* pure-function specifications: the results computed so far
    phase,   \* pure-function specifications: how far the function was applied
    files,   \* filesystem: path -> id of the file stored there (NoFile if none)
    dirs,    \* filesystem: the directories that exist
    calls,   \* one record per rename_check_file invocation
    cli      \* the command line process of main.py

vars == <<text, res, phase, files, dirs, calls, cli>>

----------------------------------------------------------------------------
(* Characters and character classes of Python's re (ASCII part).           *)

LowerSeq == <<"a","b","c","d","e","f","g","h","i","j","k","l","m",
              "n","o","p","q","r","s","t","u","v","w","x","y","z">>
UpperSeq == <<"A","B","C","D","E","F","G","H","I","J","K","L","M",
              "N","O","P","Q","R","S","T","U","V","W","X","Y","Z">>

Range(s) == {s[i] : i \in DOMAIN s}

\* [A-Za-z]
Letters == Range(LowerSeq) \cup Range(UpperSeq)
\* \d
Digits == {"0","1","2","3","4","5","6","7","8","9"}
\* \s
WhiteSpace == {" ", "\t", "\n", "\r", "\f"}
\* \w
WordChars == Letters \cup Digits \cup {"_"}
\* every character the model's texts are written with
Punct == {".", ":", "#", "-", "!", "$", ",", "/"}
AllChars == WordChars \cup WhiteSpace \cup Punct

IndexOf(s, c) == CHOOSE i \in DOMAIN s : s[i] = c
\* str.upper / str.lower on one character
ToUpper(c) == IF c \in Range(LowerSeq) THEN UpperSeq[IndexOf(LowerSeq, c)] ELSE c
ToLower(c) == IF c \in Range(UpperSeq) THEN LowerSeq[IndexOf(UpperSeq, c)] ELSE c

\* Python's None (distinct from every string, the empty one included)
None == <<"<None>">>
\* Python's `not x` for an Optional[str]
Falsy(x) == x = None \/ x = <<>>

----------------------------------------------------------------------------
(* Regular expressions: a pattern is a sequence of items.                  *)
(*   [kind "rep", set, min, max, group]  a character class repeated        *)
(*        greedily min..max times (max = -1: unbounded); group = TRUE      *)
(*        when the item is the pattern's capture group                     *)
(*   [kind "eol"]   $ under re.MULTILINE                                   *)
(*   [kind "wb"]    \b                                                     *)

Rep(S, lo, hi) == [kind |-> "rep", set |-> S, min |-> lo, max |-> hi, group |-> FALSE]
Grp(it) == [it EXCEPT !.group = TRUE]
\* a literal character under re.IGNORECASE
Lit(c) == Rep({ToLower(c), ToUpper(c)}, 1, 1)
Opt(S) == Rep(S, 0, 1)
Star(S) == Rep(S, 0, -1)
Plus(S) == Rep(S, 1, -1)
Eol == [kind |-> "eol", set |-> {}, min |-> 0, max |-> 0, group |-> FALSE]
WordB == [kind |-> "wb", set |-> {}, min |-> 0, max |-> 0, group |-> FALSE]

RECURSIVE Word(_)
\* a literal word under re.IGNORECASE
Word(w) == IF w = <<>> THEN <<>> ELSE <<Lit(Head(w))>> \o Word(Tail(w))

NoMatch == [ok |-> FALSE, start |-> 0, end |-> 0, cap |-> <<>>]

\* $ with re.MULTILINE: at the end of the string and before every newline
AtEol(t, pos) == pos = Len(t) + 1 \/ (pos <= Len(t) /\ t[pos] = "\n")

IsWordAt(t, pos) == pos >= 1 /\ pos <= Len(t) /\ t[pos] \in WordChars
\* \b: between a word character and a non-word character (or an end)
AtWordB(t, pos) == IsWordAt(t, pos - 1) # IsWordAt(t, pos)

RECURSIVE RunLen(_, _, _, _)
\* how many characters from pos on are in S, at most hi (hi = -1: no limit)
RunLen(t, pos, S, hi) ==
    IF hi = 0 \/ pos > Len(t) \/ t[pos] \notin S THEN 0
    ELSE 1 + RunLen(t, pos + 1, S, IF hi = -1 THEN -1 ELSE hi - 1)

RECURSIVE MatchFrom(_, _, _, _)
RECURSIVE TryRep(_, _, _, _, _)
\* match the items pat[k..] at position pos: the first match in
\* backtracking order (each repetition as long as possible first)
MatchFrom(pat, k, t, pos) ==
    IF k > Len(pat) THEN [ok |-> TRUE, start |-> 0, end |-> pos, cap |-> <<>>]
    ELSE IF pat[k].kind = "eol"
         THEN IF AtEol(t, pos) THEN MatchFrom(pat, k + 1, t, pos) ELSE NoMatch
    ELSE IF pat[k].kind = "wb"
         THEN IF AtWordB(t, pos) THEN MatchFrom(pat, k + 1, t, pos) ELSE NoMatch
    ELSE TryRep(pat, k, t, pos, RunLen(t, pos, pat[k].set, pat[k].max))

TryRep(pat, k, t, pos, n) ==
    IF n < pat[k].min THEN NoMatch
    ELSE LET r == MatchFrom(pat, k + 1, t, pos + n)
         IN  IF r.ok
             THEN IF pat[k].group
                  THEN [r EXCEPT !.cap = SubSeq(t, pos, pos + n - 1)]
                  ELSE r
             ELSE TryRep(pat, k, t, pos, n - 1)

RECURSIVE Search(_, _, _)
\* re.search from position from: the leftmost match
Search(pat, t, from) ==
    IF from > Len(t) + 1 THEN NoMatch
    ELSE LET r == MatchFrom(pat, 1, t, from)
         IN  IF r.ok THEN [r EXCEPT !.start = from]
             ELSE Search(pat, t, from + 1)

RECURSIVE FindAllFrom(_, _, _)
\* re.findall for a pattern with one group: the captures of the
\* non-overlapping matches, left to right
FindAllFrom(pat, t, from) ==
    LET r == Search(pat, t, from)
    IN  IF ~r.ok THEN <<>>
        ELSE <<r.cap>> \o
             FindAllFrom(pat, t, IF r.end > r.start THEN r.end ELSE r.end + 1)

FindAll(pat, t) == FindAllFrom(pat, t, 1)

----------------------------------------------------------------------------
(* String helpers of the standard library used by the agent.               *)

RECURSIVE LStrip(_, _)
LStrip(s, S) == IF s # <<>> /\ Head(s) \in S THEN LStrip(Tail(s), S) ELSE s

RECURSIVE RStrip(_, _)
RStrip(s, S) ==
    IF s # <<>> /\ s[Len(s)] \in S THEN RStrip(SubSeq(s, 1, Len(s) - 1), S) ELSE s

\* str.strip() / str.strip(chars)
Strip(s, S) == RStrip(LStrip(s, S), S)

RECURSIVE SubRuns(_, _, _)
\* re.sub(r'[S]+', repl, s): every maximal run of characters of S becomes repl
SubRuns(s, S, repl) ==
    IF s = <<>> THEN <<>>
    ELSE IF Head(s) \in S
         THEN repl \o SubRuns(LStrip(s, S), S, repl)
         ELSE <<Head(s)>> \o SubRuns(Tail(s), S, repl)

RECURSIVE Remove(_, _)
\* re.sub(r'[^S]', '', s): only the characters of S stay
Remove(s, S) ==
    IF s = <<>> THEN <<>>
    ELSE (IF Head(s) \in S THEN <<Head(s)>> ELSE <<>>) \o Remove(Tail(s), S)

RECURSIVE TitleFrom(_, _)
\* str.title(): a letter after a non-letter is uppercased, a letter after a
\* letter is lowercased
TitleFrom(s, prevCased) ==
    IF s = <<>> THEN <<>>
    ELSE <<IF prevCased THEN ToLower(Head(s)) ELSE ToUpper(Head(s))>>
         \o TitleFrom(Tail(s), Head(s) \in Letters)

Title(s) == TitleFrom(s, FALSE)

----------------------------------------------------------------------------
(* CheckExtractionAgent._parse_writer_name                                 *)

WsPlus == <<Plus(WhiteSpace)>>
ColonWsPlus == <<Plus({":"} \cup WhiteSpace)>>
NameGroup == <<Grp(Plus(Letters \cup WhiteSpace))>>

\* r'Pay\s+to\s+the\s+order\s+of[:\s]+([A-Za-z\s]+)'
PayToPattern ==
    Word(<<"P","a","y">>) \o WsPlus \o Word(<<"t","o">>) \o WsPlus \o
    Word(<<"t","h","e">>) \o WsPlus \o Word(<<"o","r","d","e","r">>) \o WsPlus \o
    Word(<<"o","f">>) \o ColonWsPlus \o NameGroup

\* r'PAY\s+TO\s+THE\s+ORDER\s+OF[:\s]+([A-Za-z\s]+)'
PayToUpperPattern ==
    Word(<<"P","A","Y">>) \o WsPlus \o Word(<<"T","O">>) \o WsPlus \o
    Word(<<"T","H","E">>) \o WsPlus \o Word(<<"O","R","D","E","R">>) \o WsPlus \o
    Word(<<"O","F">>) \o ColonWsPlus \o NameGroup

\* r'Payable\s+to[:\s]+([A-Za-z\s]+)'
PayablePattern ==
    Word(<<"P","a","y","a","b","l","e">>) \o WsPlus \o Word(<<"t","o">>) \o
    ColonWsPlus \o NameGroup

WriterPatterns == <<PayToPattern, PayToUpperPattern, PayablePattern>>

\* name = match.group(1).strip(); name = re.sub(r'\s+', ' ', name); name.title()
CleanName(cap) == Title(SubRuns(Strip(cap, WhiteSpace), WhiteSpace, <<" ">>))

RECURSIVE WriterFrom(_, _, _)
\* the loop over the patterns: the first pattern that matches decides
WriterFrom(pats, k, t) ==
    IF k > Len(pats) THEN None
    ELSE LET m == Search(pats[k], t, 1)
         IN  IF m.ok THEN CleanName(m.cap) ELSE WriterFrom(pats, k + 1, t)

ParseWriterName(t) == WriterFrom(WriterPatterns, 1, t)

----------------------------------------------------------------------------
(* CheckExtractionAgent._parse_check_number                                *)

\* \d{3,6}
MinDigits == 3
MaxDigits == 6
\* if len(match) >= 3
AcceptMinLen == 3
\* if 4 <= len(num) <= 6
FallbackMinDigits == 4
FallbackMaxDigits == 6

WsStar == <<Star(WhiteSpace)>>
ColonWsStar == <<Star({":"} \cup WhiteSpace)>>
DigitGroup == <<Grp(Rep(Digits, MinDigits, MaxDigits))>>
CheckWord == Word(<<"C","h","e","c","k">>)

\* r'No\.?\s*[:\s]*(\d{3,6})'
NoPattern ==
    Word(<<"N","o">>) \o <<Opt({"."})>> \o WsStar \o ColonWsStar \o DigitGroup

\* r'Check\s*#?\s*[:\s]*(\d{3,6})'
CheckHashPattern ==
    CheckWord \o WsStar \o <<Opt({"#"})>> \o WsStar \o ColonWsStar \o DigitGroup

\* r'#?\s*(\d{3,6})\s*$'
EndOfLinePattern ==
    <<Opt({"#"})>> \o WsStar \o DigitGroup \o WsStar \o <<Eol>>

\* r'Check\s+Number[:\s]+(\d{3,6})'
CheckNumberPattern ==
    CheckWord \o WsPlus \o Word(<<"N","u","m","b","e","r">>) \o ColonWsPlus \o
    DigitGroup

NumberPatterns ==
    <<NoPattern, CheckHashPattern, EndOfLinePattern, CheckNumberPattern>>

\* r'\b\d{3,6}\b' (no group: findall returns the whole match)
IsolatedPattern == <<WordB>> \o DigitGroup \o <<WordB>>

RECURSIVE FirstWith(_, _, _)
\* the first element of ms whose length is in lo..hi (None if there is none)
FirstWith(ms, lo, hi) ==
    IF ms = <<>> THEN None
    ELSE IF lo <= Len(Head(ms)) /\ Len(Head(ms)) <= hi THEN Head(ms)
    ELSE FirstWith(Tail(ms), lo, hi)

\* the fallback without its filter on the length: 3 digits are enough
FallbackAnyLength(t) ==
    FirstWith(FindAll(IsolatedPattern, t), MinDigits, MaxDigits)

\* lines 181-187: the first isolated number of 4 to 6 digits
Fallback(t) ==
    FirstWith(FindAll(IsolatedPattern, t), FallbackMinDigits, FallbackMaxDigits)

RECURSIVE NumberFrom(_, _, _)
\* lines 172-178: the first pattern with a match of at least 3 digits decides
NumberFrom(pats, k, t) ==
    IF k > Len(pats) THEN Fallback(t)
    ELSE LET ms == FindAll(pats[k], t)
             m == FirstWith(ms, AcceptMinLen, Len(t))
         IN  IF m # None THEN m ELSE NumberFrom(pats, k + 1, t)

ParseCheckNumber(t) == NumberFrom(NumberPatterns, 1, t)

----------------------------------------------------------------------------
(* The filename sanitizer of rename_check_file (lines 229-231).            *)

\* re.sub(r'[^\w\s-]', '', writer_name)
RemoveInvalid(s) == Remove(s, WordChars \cup WhiteSpace \cup {"-"})
\* re.sub(r'\s+', '_', s)
WsToUnderscore(s) == SubRuns(s, WhiteSpace, <<"_">>)
\* s.strip('_')
StripUnderscore(s) == Strip(s, {"_"})

\* the sanitizer with the underscores stripped before the whitespace is replaced
SanitizeStripFirst(writer_name) ==
    WsToUnderscore(StripUnderscore(RemoveInvalid(writer_name)))

Sanitize(writer_name) == StripUnderscore(WsToUnderscore(RemoveInvalid(writer_name)))

----------------------------------------------------------------------------
(* Input texts of the pure-function specifications: concatenations of      *)
(* fragments.                                                              *)

RECURSIVE Concat(_)
Concat(ss) == IF ss = <<>> THEN <<>> ELSE Head(ss) \o Concat(Tail(ss))

\* every concatenation of at most n fragments of F
Texts(F, n) == {Concat(ss) : ss \in UNION {[1..k -> F] : k \in 0..n}}

SeqsUpTo(A, n) == UNION {[1..k -> A] : k \in 0..n}

\* the other processes do not exist in a pure-function specification
NoCli == [pc |-> "Off"]
IdleWorld ==
    /\ files = <<>>
    /\ dirs = {}
    /\ calls = <<>>
    /\ cli = NoCli

world == <<files, dirs, calls, cli>>
pure == <<text, res, phase>>

----------------------------------------------------------------------------
(* SpecSanitize: the sanitizer applied once and then to its own result.    *)

MaxSanLen == 4
SanAlphabet == {"a", "B", "7", "_", "-", " ", "\n", "!", "."}

InitSanitize ==
    /\ text \in SeqsUpTo(SanAlphabet, MaxSanLen)
    /\ res = <<>>
    /\ phase = "input"
    /\ IdleWorld

SanitizeOnce ==
    /\ phase = "input"
    /\ res' = <<Sanitize(text)>>
    /\ phase' = "once"
    /\ UNCHANGED <<text, world>>

SanitizeAgain ==
    /\ phase = "once"
    /\ res' = Append(res, Sanitize(res[1]))
    /\ phase' = "twice"
    /\ UNCHANGED <<text, world>>

NextSanitize == SanitizeOnce \/ SanitizeAgain

SpecSanitize == InitSanitize /\ [][NextSanitize]_vars

----------------------------------------------------------------------------
(* SpecNumber: _parse_check_number applied to a text.                      *)

MaxNumFrags == 4
NumFrags ==
    { <<"N","o",".">>, <<"c","h","e","c","k">>, <<"#">>,
      <<"C","h","e","c","k"," ","N","u","m","b","e","r",":"," ">>,
      <<"1","2","3">>, <<"4","5","6","7">>, <<" ">>, <<"\n">>, <<"x">> }

InitNumber ==
    /\ text \in Texts(NumFrags, MaxNumFrags)
    /\ res = <<>>
    /\ phase = "input"
    /\ IdleWorld

FindCheckNumber ==
    /\ phase = "input"
    /\ res' = <<ParseCheckNumber(text)>>
    /\ phase' = "done"
    /\ UNCHANGED <<text, world>>

NextNumber == FindCheckNumber

SpecNumber == InitNumber /\ [][NextNumber]_vars

----------------------------------------------------------------------------
(* SpecPayee: _parse_writer_name applied to a text that contains           *)
(* "Pay to the order of: John Smith" in some letter case.                  *)

JohnSmithPhrase ==
    <<"P","a","y"," ","t","o"," ","t","h","e"," ","o","r","d","e","r"," ",
      "o","f",":"," ","J","o","h","n"," ","S","m","i","t","h">>
JohnSmith == <<"J","o","h","n"," ","S","m","i","t","h">>

UpperAll(s) == [i \in DOMAIN s |-> ToUpper(s[i])]
LowerAll(s) == [i \in DOMAIN s |-> ToLower(s[i])]
PhraseCases == {JohnSmithPhrase, UpperAll(JohnSmithPhrase), LowerAll(JohnSmithPhrase)}

MaxBefore == 2
MaxAfter == 2
BeforeFrags ==
    { <<"M","e","m","o"," ">>, <<"\n">>, <<"$","1","2"," ">>,
      <<"P","a","y","a","b","l","e"," ","t","o"," ","B","o","b",".","\n">> }
AfterFrags ==
    { <<" ">>, <<"\n">>, <<"$","1","2">>, <<".">>, <<"\n","M","e","m","o">>,
      <<" ","a","n","d"," ","C","o">> }

InitPayee ==
    /\ text \in {b \o p \o a : b \in Texts(BeforeFrags, MaxBefore),
                               p \in PhraseCases,
                               a \in Texts(AfterFrags, MaxAfter)}
    /\ res = <<>>
    /\ phase = "input"
    /\ IdleWorld

FindPayee ==
    /\ phase = "input"
    /\ res' = <<ParseWriterName(text)>>
    /\ phase' = "done"
    /\ UNCHANGED <<text, world>>

NextPayee == FindPayee

SpecPayee == InitPayee /\ [][NextPayee]_vars

----------------------------------------------------------------------------
(* The filesystem and rename_check_file.                                   *)
(*                                                                         *)
(* A directory is a sequence of component names, a path a record of a      *)
(* directory and a file name (a string).  files maps the paths that hold   *)
(* a file to the identity of that file.                                    *)

PathOf(d, n) == [dir |-> d, name |-> n]
Exists(p) == p \in DOMAIN files \/ (p.name = <<>> /\ p.dir \in dirs)

RECURSIVE LastDot(_, _)
\* str.rfind('.') on the first i characters (0: none)
LastDot(n, i) == IF i = 0 THEN 0 ELSE IF n[i] = "." THEN i ELSE LastDot(n, i - 1)

\* Path.suffix: from the last dot on, unless the name starts or ends with it
Suffix(n) ==
    LET i == LastDot(n, Len(n))
    IN  IF i > 1 /\ i < Len(n) THEN SubSeq(n, i, Len(n)) ELSE <<>>

\* the directories mkdir(parents=True) makes sure of: d and its ancestors
Ancestors(d) == {SubSeq(d, 1, k) : k \in 1..Len(d)}

\* the files' paths after a move of src onto dst (os.rename)
Moved(fs, src, dst) ==
    IF src = dst THEN fs
    ELSE [q \in (DOMAIN fs \ {src}) \cup {dst} |-> IF q = dst THEN fs[src] ELSE fs[q]]

Running == {"Start", "EnterExtract", "SourceChecked", "TextExtracted",
            "FieldsExtracted", "Sanitized", "TargetReady"}
Failed == {"NotFound", "Unreadable", "Aborted", "IOFailure"}
Terminal == Failed \cup {"Moved", "Returned"}

NoPath == PathOf(None, None)

\* the state of an invocation that has not begun
IdleCall ==
    [pc |-> "Idle", op |-> "none", src |-> NoPath, outdir |-> None, llm |-> FALSE,
     text |-> None, writer |-> None, number |-> None,
     target |-> NoPath, ocr |-> 0, did |-> {}]

\* rename_check_file(file_path, output_dir) entered
RenameCall(src, outdir, llm) ==
    [IdleCall EXCEPT !.pc = "Start", !.op = "rename", !.src = src,
                     !.outdir = outdir, !.llm = llm]

\* extract_check_info(file_path) entered
ExtractCall(src, llm) ==
    [IdleCall EXCEPT !.pc = "EnterExtract", !.op = "extract", !.src = src, !.llm = llm]

\* what the OCR engine may read from a check
TextJohn ==
    JohnSmithPhrase \o <<" ","$","5","\n","N","o","."," ","1","2","3","4">>
TextJane ==
    <<"P","A","Y"," ","T","O"," ","T","H","E"," ","O","R","D","E","R"," ","O","F",
      " "," ","J","a","n","e"," "," "," ","D","o","e","\n",".",".",".","\n",
      "C","h","e","c","k"," ","N","u","m","b","e","r",":"," ","1","0","2","3","4">>
TextNoPayee == <<"C","h","e","c","k"," ","#","0","0","4","5","2","1">>
TextNoNumber ==
    <<"P","a","y"," ","t","o"," ","t","h","e"," ","o","r","d","e","r"," ","o","f"," ",
      "J","a","n","e"," ","D","o","e",".">>
OcrTexts == {TextJohn, TextJane, TextNoPayee, TextNoNumber}

\* rename_check_file without its own existence check
CheckSourceSkipped(i) ==
    /\ calls[i].pc = "Start"
    /\ calls' = [calls EXCEPT ![i].pc = "SourceChecked"]
    /\ UNCHANGED <<files, dirs, pure, cli>>

\* lines 214-217: the source must exist
CheckSource(i) ==
    /\ calls[i].pc = "Start"
    /\ calls' = [calls EXCEPT ![i].pc =
                    IF Exists(calls[i].src) THEN "SourceChecked" ELSE "NotFound"]
    /\ UNCHANGED <<files, dirs, pure, cli>>

\* extract_text_from_file, lines 94-112: the existence check, then the OCR
\* engine, which returns a text or fails on a document with no page
ExtractText(i) ==
    /\ calls[i].pc \in {"SourceChecked", "EnterExtract"}
    /\ IF ~Exists(calls[i].src)
       THEN calls' = [calls EXCEPT ![i].pc = "NotFound"]
       ELSE \/ \E t \in OcrTexts :
                 calls' = [calls EXCEPT ![i].pc = "TextExtracted", ![i].text = t,
                                        ![i].ocr = @ + 1]
            \/ calls' = [calls EXCEPT ![i].pc = "Unreadable", ![i].ocr = @ + 1]
    /\ UNCHANGED <<files, dirs, pure, cli>>

\* lines 137-138 on every text the OCR engine may return (the parsers are
\* pure: the table is computed once)
RegexFields ==
    [t \in OcrTexts |-> [writer |-> ParseWriterName(t), number |-> ParseCheckNumber(t)]]

\* extract_check_info, lines 126-140: the LLM placeholders return None, the
\* regular expressions parse the text
ParseFields(i) ==
    /\ calls[i].pc = "TextExtracted"
    /\ calls' = [calls EXCEPT
           ![i].pc = IF calls[i].op = "extract" THEN "Returned" ELSE "FieldsExtracted",
           ![i].writer = IF calls[i].llm THEN None ELSE RegexFields[calls[i].text].writer,
           ![i].number = IF calls[i].llm THEN None ELSE RegexFields[calls[i].text].number,
           ![i].text = None]
    /\ UNCHANGED <<files, dirs, pure, cli>>

\* new_filename = f"{safe_writer_name}_{check_number}{extension}"
NewFilename(c) == Sanitize(c.writer) \o <<"_">> \o c.number \o Suffix(c.src.name)

\* lines 238-243: the directory the renamed file goes to
TargetDir(c) == IF Falsy(c.outdir) THEN c.src.dir ELSE c.outdir

\* the precondition testing the writer name only
CheckFieldsWriterOnly(i) ==
    /\ calls[i].pc = "FieldsExtracted"
    /\ IF Falsy(calls[i].writer)
       THEN calls' = [calls EXCEPT ![i].pc = "Aborted"]
       ELSE calls' = [calls EXCEPT
                ![i].pc = "Sanitized",
                ![i].target = PathOf(TargetDir(calls[i]), NewFilename(calls[i]))]
    /\ UNCHANGED <<files, dirs, pure, cli>>

\* lines 222-243 up to the output path: both fields or ValueError
CheckFields(i) ==
    /\ calls[i].pc = "FieldsExtracted"
    /\ IF Falsy(calls[i].writer) \/ Falsy(calls[i].number)
       THEN calls' = [calls EXCEPT ![i].pc = "Aborted"]
       ELSE calls' = [calls EXCEPT
                ![i].pc = "Sanitized",
                ![i].target = PathOf(TargetDir(calls[i]), NewFilename(calls[i]))]
    /\ UNCHANGED <<files, dirs, pure, cli>>

\* the output path computed, the directory never made
MakeDirSkipped(i) ==
    /\ calls[i].pc = "Sanitized"
    /\ calls' = [calls EXCEPT ![i].pc = "TargetReady"]
    /\ UNCHANGED <<files, dirs, pure, cli>>

\* line 241: output_dir.mkdir(parents=True, exist_ok=True), only with an
\* output directory; it may fail (permissions, a read-only disk)
MakeDir(i) ==
    /\ calls[i].pc = "Sanitized"
    /\ IF Falsy(calls[i].outdir)
       THEN /\ calls' = [calls EXCEPT ![i].pc = "TargetReady"]
            /\ UNCHANGED dirs
       ELSE \/ /\ dirs' = dirs \cup Ancestors(calls[i].outdir)
               /\ calls' = [calls EXCEPT ![i].pc = "TargetReady",
                                         ![i].did = @ \cup {"mkdir"}]
            \/ /\ calls[i].outdir \notin dirs
               /\ calls' = [calls EXCEPT ![i].pc = "IOFailure"]
               /\ UNCHANGED dirs
    /\ UNCHANGED <<files, pure, cli>>

\* the move tried again, from the directory on, after it failed
MoveWithRetry(i) ==
    /\ calls[i].pc = "TargetReady"
    /\ \/ /\ calls[i].src \in DOMAIN files
          /\ calls[i].target.dir \in dirs
          /\ files' = Moved(files, calls[i].src, calls[i].target)
          /\ calls' = [calls EXCEPT ![i].pc = "Moved", ![i].did = @ \cup {"move"}]
       \/ /\ calls' = [calls EXCEPT ![i].pc = "Sanitized"]
          /\ UNCHANGED files
    /\ UNCHANGED <<dirs, pure, cli>>

\* line 246: file_path.rename(output_path).  The move fails when the source
\* is gone or the target's directory is missing, and may fail for a reason of
\* the system (permissions, another device); onto an existing file it
\* replaces the file (POSIX) or fails (Windows).
Move(i) ==
    /\ calls[i].pc = "TargetReady"
    /\ \/ /\ calls[i].src \in DOMAIN files
          /\ calls[i].target.dir \in dirs
          /\ files' = Moved(files, calls[i].src, calls[i].target)
          /\ calls' = [calls EXCEPT ![i].pc = "Moved", ![i].did = @ \cup {"move"}]
       \/ /\ calls' = [calls EXCEPT ![i].pc = "IOFailure"]
          /\ UNCHANGED files
    /\ UNCHANGED <<dirs, pure, cli>>

----------------------------------------------------------------------------
(* Spec: NCalls invocations of rename_check_file on one agent, run          *)
(* concurrently (the batch of examples/example_usage.py on threads).       *)

NCalls == 2

InDir == <<"in">>
OutSub == <<"out", "sub">>
FileA == PathOf(InDir, <<"a",".","j","p","g">>)
FileB == PathOf(InDir, <<"b",".","j","p","g">>)
FileGone == PathOf(InDir, <<"z",".","j","p","g">>)
SrcPaths == {FileA, FileB, FileGone}
OutDirs == {None, OutSub}

InitFiles == [p \in {FileA, FileB} |-> IF p = FileA THEN 1 ELSE 2]

NoPure ==
    /\ text = <<>>
    /\ res = <<>>
    /\ phase = "none"

Init ==
    /\ NoPure
    /\ files = InitFiles
    /\ dirs = {InDir}
    /\ \E llm \in BOOLEAN :
           calls \in [1..NCalls -> {RenameCall(s, d, llm) : s \in SrcPaths, d \in OutDirs}]
    /\ cli = NoCli

Next ==
    \/ \E i \in DOMAIN calls : CheckSource(i)
    \/ \E i \in DOMAIN calls : ExtractText(i)
    \/ \E i \in DOMAIN calls : ParseFields(i)
    \/ \E i \in DOMAIN calls : CheckFields(i)
    \/ \E i \in DOMAIN calls : MakeDir(i)
    \/ \E i \in DOMAIN calls : Move(i)

Spec == Init /\ [][Next]_vars

----------------------------------------------------------------------------
(* SpecCLI: one run of main.py.  calls[1] is its call of                   *)
(* extract_check_info, calls[2] its call of rename_check_file.             *)

NoArgs == [given |-> FALSE, file |-> NoPath, llm |-> FALSE, outdir |-> None]
\* sys.argv: nothing, or a file with the optional --llm and --output-dir
ArgVectors ==
    {NoArgs} \cup
    {[given |-> TRUE, file |-> f, llm |-> l, outdir |-> d] :
        f \in {FileA, FileGone}, l \in BOOLEAN, d \in OutDirs}

CliStart(argv, key) ==
    [pc |-> "Main", argv |-> argv, key |-> key, llm |-> FALSE,
     exit |-> -1, caught |-> FALSE, newpath |-> NoPath]

InitCLI ==
    /\ NoPure
    /\ files = InitFiles
    /\ dirs = {InDir}
    /\ calls = <<IdleCall, IdleCall>>
    /\ \E argv \in ArgVectors, key \in BOOLEAN : cli = CliStart(argv, key)

\* main, lines 64-84, and extract_and_rename_check up to line 40: without
\* an argument the usage and sys.exit(1); LLM mode needs OPENAI_API_KEY
CliMain ==
    /\ cli.pc = "Main"
    /\ IF ~cli.argv.given
       THEN /\ cli' = [cli EXCEPT !.pc = "Exited", !.exit = 1]
            /\ UNCHANGED calls
       ELSE /\ cli' = [cli EXCEPT !.pc = "Extracting", !.llm = cli.argv.llm /\ cli.key]
            /\ calls' = [calls EXCEPT
                   ![1] = ExtractCall(cli.argv.file, cli.argv.llm /\ cli.key)]
    /\ UNCHANGED <<files, dirs, pure>>

\* lines 40-49: an exception of extract_check_info, or a missing field
\* (ValueError), goes to the except clause; else rename_check_file is called
CliCheckFields ==
    /\ cli.pc = "Extracting"
    /\ calls[1].pc \in Terminal
    /\ IF calls[1].pc \in Failed \/ Falsy(calls[1].writer) \/ Falsy(calls[1].number)
       THEN /\ cli' = [cli EXCEPT !.pc = "Caught", !.caught = TRUE]
            /\ UNCHANGED calls
       ELSE /\ cli' = [cli EXCEPT !.pc = "Renaming"]
            /\ calls' = [calls EXCEPT
                   ![2] = RenameCall(cli.argv.file, cli.argv.outdir, cli.llm)]
    /\ UNCHANGED <<files, dirs, pure>>

\* lines 49-59: the new path is returned, an exception is printed
CliAfterRename ==
    /\ cli.pc = "Renaming"
    /\ calls[2].pc \in Terminal
    /\ IF calls[2].pc = "Moved"
       THEN cli' = [cli EXCEPT !.pc = "Returned", !.newpath = calls[2].target]
       ELSE cli' = [cli EXCEPT !.pc = "Caught", !.caught = TRUE]
    /\ UNCHANGED <<files, dirs, calls, pure>>

\* line 84 and the end of main: the result of extract_and_rename_check is
\* dropped and the interpreter exits with code 0
CliExit ==
    /\ cli.pc \in {"Caught", "Returned"}
    /\ cli' = [cli EXCEPT !.pc = "Exited", !.exit = 0]
    /\ UNCHANGED <<files, dirs, calls, pure>>

NextCLI ==
    \/ CliMain
    \/ CliCheckFields
    \/ CliAfterRename
    \/ CliExit
    \/ \E i \in DOMAIN calls : CheckSource(i)
    \/ \E i \in DOMAIN calls : ExtractText(i)
    \/ \E i \in DOMAIN calls : ParseFields(i)
    \/ \E i \in DOMAIN calls : CheckFields(i)
    \/ \E i \in DOMAIN calls : MakeDir(i)
    \/ \E i \in DOMAIN calls : Move(i)

SpecCLI == InitCLI /\ [][NextCLI]_vars

----------------------------------------------------------------------------
(* Properties of rename_check_file (Spec).                                 *)

Ids == DOMAIN calls
HasOutDir(c) == ~Falsy(c.outdir)
MissingField(c) == Falsy(c.writer) \/ Falsy(c.number)

\* C1: rename on a source path that holds no file fails with NotFound before
\* any other work: in that one step the call ends in NotFound, the OCR engine
\* was not invoked, no directory was made and no file moved; a call that ended
\* in NotFound has invoked no OCR and changed nothing.
C1_NotFoundBeforeAnyWork ==
    /\ [](\A i \in Ids : calls[i].pc = "NotFound" =>
              calls[i].ocr = 0 /\ calls[i].did = {})
    /\ [][\A i \in Ids :
            (calls[i].pc = "Start" /\ ~Exists(calls[i].src) /\ calls'[i] # calls[i])
            => /\ calls'[i].pc = "NotFound"
               /\ calls'[i].ocr = 0
               /\ calls'[i].did = {}
               /\ files' = files
               /\ dirs' = dirs]_vars

\* a call on the missing file, with an output directory that does not exist,
\* has failed with NotFound and the filesystem is the initial one
C1_Witness ==
    \E i \in Ids :
        /\ calls[i].pc = "NotFound"
        /\ calls[i].src = FileGone
        /\ calls[i].outdir = OutSub
        /\ OutSub \notin dirs
        /\ files = InitFiles

\* C2: when the extracted payee or check number (or both) is absent, rename
\* fails with the missing-fields error in one step that changes no file and no
\* directory; an aborted call has made no directory and moved nothing, and its
\* source (if no other call was given the same one) is still the file at its
\* original path.
C2_MissingFieldsNoRename ==
    /\ [](\A i \in Ids : calls[i].pc = "Aborted" =>
              /\ MissingField(calls[i])
              /\ calls[i].did = {}
              /\ (\A j \in Ids \ {i} : calls[j].src # calls[i].src) =>
                     /\ calls[i].src \in DOMAIN files
                     /\ files[calls[i].src] = InitFiles[calls[i].src])
    /\ [][\A i \in Ids :
            (calls[i].pc = "FieldsExtracted" /\ MissingField(calls[i])
               /\ calls'[i] # calls[i])
            => /\ calls'[i].pc = "Aborted"
               /\ files' = files
               /\ dirs' = dirs]_vars

\* the regular expressions found a check number and no payee, the call was
\* aborted and its source is where it was
C2_Witness ==
    \E i \in Ids :
        /\ calls[i].pc = "Aborted"
        /\ ~calls[i].llm
        /\ Falsy(calls[i].writer)
        /\ ~Falsy(calls[i].number)
        /\ calls[i].src \in DOMAIN files

Succeeded == {i \in Ids : calls[i].pc = "Moved"}

\* C3: for rename calls on pairwise distinct source files, in every
\* interleaving, once all calls have finished the number of files at the
\* returned target paths is the number of successful calls and every
\* successful call's file is at its target (none overwritten, none lost).
C3_OneFilePerSuccessfulCall ==
    ( /\ \A i \in Ids : calls[i].pc \in Terminal
      /\ \A i, j \in Ids : i # j => calls[i].src # calls[j].src )
    => /\ Cardinality({calls[i].target : i \in Succeeded} \cap DOMAIN files)
            = Cardinality(Succeeded)
       /\ \A i \in Succeeded :
              /\ calls[i].target \in DOMAIN files
              /\ files[calls[i].target] = InitFiles[calls[i].src]

\* C9: with an explicit output directory the directory exists when the move
\* step is taken (it was made, with its ancestors, before); the successful
\* move leaves the file at outputDir/{SanitizedToken}_{check_number}{ext},
\* at no other path, and no file at the source path.
C9_DirectoryBeforeMove ==
    /\ [](\A i \in Ids : (calls[i].pc = "TargetReady" /\ HasOutDir(calls[i])) =>
              /\ calls[i].target.dir = calls[i].outdir
              /\ Ancestors(calls[i].outdir) \subseteq dirs)
    /\ [][\A i \in Ids :
            (calls[i].pc = "TargetReady" /\ calls'[i].pc = "Moved"
               /\ HasOutDir(calls[i]))
            => /\ calls[i].target =
                    PathOf(calls[i].outdir,
                           Sanitize(calls[i].writer) \o <<"_">> \o calls[i].number
                             \o Suffix(calls[i].src.name))
               /\ calls[i].target \in DOMAIN files'
               /\ files'[calls[i].target] = files[calls[i].src]
               /\ calls[i].src \notin DOMAIN files'
               /\ \A p \in DOMAIN files' :
                      files'[p] = files[calls[i].src] => p = calls[i].target]_vars

JaneTarget ==
    PathOf(OutSub, <<"J","a","n","e","_","D","o","e","_","1","0","2","3","4",
                     ".","j","p","g">>)

\* a call with the output directory out/sub, missing at first, has moved a.jpg
\* to out/sub/Jane_Doe_10234.jpg
C9_Witness ==
    \E i \in Ids :
        /\ calls[i].pc = "Moved"
        /\ calls[i].src = FileA
        /\ calls[i].outdir = OutSub
        /\ calls[i].target = JaneTarget
        /\ {<<"out">>, OutSub} \subseteq dirs
        /\ JaneTarget \in DOMAIN files
        /\ FileA \notin DOMAIN files

\* the steps of one invocation (TargetReady: Sanitized with the output
\* directory made sure of)
LinearPass ==
    { <<"Start", "SourceChecked">>, <<"Start", "NotFound">>,
      <<"SourceChecked", "TextExtracted">>, <<"SourceChecked", "NotFound">>,
      <<"SourceChecked", "Unreadable">>,
      <<"TextExtracted", "FieldsExtracted">>,
      <<"FieldsExtracted", "Aborted">>, <<"FieldsExtracted", "Sanitized">>,
      <<"Sanitized", "TargetReady">>, <<"Sanitized", "IOFailure">>,
      <<"TargetReady", "Moved">>, <<"TargetReady", "IOFailure">> }

Order ==
    <<"Start", "SourceChecked", "TextExtracted", "FieldsExtracted", "Sanitized",
      "TargetReady", "Moved", "Aborted", "NotFound", "Unreadable", "IOFailure">>
Rank(pc) == IndexOf(Order, pc)

\* C10: every step of an invocation follows Start -> SourceChecked ->
\* TextExtracted -> FieldsExtracted -> (Aborted | Sanitized -> Moved) or ends
\* it with an error; no state is entered again and no terminal state is left
\* (no retry); the OCR engine is invoked at most once and only after the
\* existence check; Sanitized, Moved and the making of a directory come only
\* with both fields present; only an invocation past FieldsExtracted changes
\* the filesystem.
C10_SingleLinearPass ==
    [][/\ \A i \in Ids :
            calls'[i] # calls[i] =>
               /\ <<calls[i].pc, calls'[i].pc>> \in LinearPass
               /\ Rank(calls'[i].pc) > Rank(calls[i].pc)
               /\ calls'[i].ocr <= 1
               /\ calls'[i].ocr # calls[i].ocr => calls[i].pc = "SourceChecked"
               /\ calls'[i].pc \in {"Sanitized", "TargetReady", "Moved"} =>
                      ~MissingField(calls'[i])
               /\ calls'[i].did # calls[i].did =>
                      calls[i].pc \in {"Sanitized", "TargetReady"}
       /\ (files' # files \/ dirs' # dirs) =>
              \E i \in Ids : /\ calls'[i] # calls[i]
                             /\ calls[i].pc \in {"Sanitized", "TargetReady"}
                             /\ ~MissingField(calls[i])]_vars

\* one invocation has moved its file and another was aborted, each after one
\* invocation of the OCR engine
C10_Witness ==
    \E i, j \in Ids :
        /\ calls[i].pc = "Moved" /\ calls[i].ocr = 1 /\ calls[i].did = {"mkdir", "move"}
        /\ calls[j].pc = "Aborted" /\ calls[j].ocr = 1

----------------------------------------------------------------------------
(* Properties of main.py (SpecCLI).                                        *)

\* C4: the process exits with code 1 when the arguments are missing or a
\* processing error occurred, and with code 0 only when the file was renamed.
C4_ExitCodes ==
    cli.pc = "Exited" =>
        IF ~cli.argv.given \/ cli.caught
        THEN cli.exit = 1
        ELSE cli.exit = 0 /\ calls[2].pc = "Moved"

----------------------------------------------------------------------------
(* Properties of _parse_check_number (SpecNumber).                         *)

DigitPositions(t) == {p \in DOMAIN t : t[p] \in Digits}

\* the only digits of t are one run of 3, isolated by word boundaries
IsolatedThreeAt(t, p) ==
    /\ DigitPositions(t) = {p, p + 1, p + 2}
    /\ AtWordB(t, p)
    /\ AtWordB(t, p + 3)
OnlyIsolatedThree(t) == \E p \in DOMAIN t : IsolatedThreeAt(t, p)
TheThree(t) ==
    LET p == CHOOSE q \in DOMAIN t : IsolatedThreeAt(t, q) IN SubSeq(t, p, p + 2)

LabeledPatterns == {NoPattern, CheckHashPattern, CheckNumberPattern}
LabeledMatch(t) == \E pat \in LabeledPatterns : Search(pat, t, 1).ok
LabeledCaptures(t) == UNION {Range(FindAll(pat, t)) : pat \in LabeledPatterns}

\* only whitespace stands between the end of the number at p and the end of
\* its line
EndsItsLine(t, p) ==
    \E q \in (p + 3)..(Len(t) + 1) :
        AtEol(t, q) /\ \A r \in (p + 3)..(q - 1) : t[r] \in WhiteSpace
ThreeEndsItsLine(t) == \E p \in DOMAIN t : IsolatedThreeAt(t, p) /\ EndsItsLine(t, p)

\* C5 as stated: a text with only an isolated 3-digit number and no labeled
\* field yields no check number, wherever the number stands in its line.
C5_AbsentWhereverInLine ==
    (phase = "done" /\ OnlyIsolatedThree(text) /\ ~LabeledMatch(text))
    => res[1] = None

\* C5 amended: a text with only an isolated 3-digit number and no match of a
\* labeled pattern yields no check number when a character other than
\* whitespace follows the number on its line; when only whitespace stands
\* between the number and the end of its line, the end-of-line pattern
\* returns the number.
C5_AbsentUnlessAtEndOfLine ==
    (phase = "done" /\ OnlyIsolatedThree(text) /\ ~LabeledMatch(text))
    => res[1] = IF ThreeEndsItsLine(text) THEN TheThree(text) ELSE None

\* "123 x": the number is followed by a word on its line; nothing is returned
C5_Witness ==
    /\ phase = "done"
    /\ text = <<"1","2","3"," ","x">>
    /\ res[1] = None

\* C6: when some labeled pattern matches the text, the check number returned
\* is a capture of a labeled pattern.
C6_LabeledFirst ==
    (phase = "done" /\ LabeledMatch(text)) => res[1] \in LabeledCaptures(text)

----------------------------------------------------------------------------
(* Properties of _parse_writer_name (SpecPayee).                           *)

\* C7: every text containing "Pay to the order of: John Smith" in any letter
\* case, whatever precedes and follows it, yields the payee "John Smith".
C7_AlwaysJohnSmith == phase = "done" => res[1] = JohnSmith

----------------------------------------------------------------------------
(* Properties of the sanitizer (SpecSanitize).                             *)

\* C8: sanitizing a sanitized string changes nothing.
C8_SanitizeIdempotent == phase = "twice" => res[2] = res[1]

\* " a!_ b": the sanitizer changed the input, the second application did not
\* change the result
C8_Witness ==
    /\ phase = "twice"
    /\ res[1] # text
    /\ res[1] # <<>>
    /\ \E k \in DOMAIN text : text[k] \in WhiteSpace
    /\ \E k \in DOMAIN text : text[k] = "!"
    /\ res[2] = res[1]

====
